---------------------------- MODULE Spec2Model ----------------------------
(***************************************************************************)
(* devtimer: a start/stop timer (src/src/simple.rs, with the elapsed       *)
(* queries of src/src/traits.rs), the older timer, the tag registry        *)
(* (ComplexTimer) and run_benchmark of src/src/lib.rs.                     *)
(*                                                                         *)
(* Time is the value of the monotonic clock in nanoseconds.  Every call of *)
(* Instant::now() returns a value t >= the last value returned (`clock`).  *)
(* An Option is a sequence of length 0 (None) or 1 (Some).                 *)
(***************************************************************************)
EXTENDS Integers, Sequences, FiniteSets

\* ------------------------------------------------------------------ bounds
\* Largest clock value a run reads.
MaxClock == 3
\* Largest iteration count handed to run_benchmark.
MaxIters == 3
\* Number of calls on a standalone timer the call history keeps.
HistLen == 4

Tags == {"a", "b"}

VARIABLES
    clock,   \* last value returned by Instant::now()
    st,      \* the SimpleTimer of simple.rs: [start, stop]
    lt,      \* the SimpleTimer of lib.rs: [start, stop]
    hist,    \* the last HistLen calls on st or lt: [op, ret, at], newest last
    timers,  \* ComplexTimer.timers: tag -> [start, stop]
    call,    \* the last call on the registry: [op, tag, ret, val]
    out,     \* the lines the last call on the registry printed
    live,    \* tags whose create_timer returned Ok, not deleted or cleared since
    deleted, \* tags whose delete_timer returned Ok, not created again since
    bpc,     \* run_benchmark: position
    iters,   \* run_benchmark: argument iters
    i,       \* run_benchmark: loop index
    btimer,  \* run_benchmark: local timer
    res,     \* run_benchmark: local res, the samples pushed so far
    events,  \* run_benchmark: log of start marks, invocations and stop marks
    report,  \* run_benchmark: the RunThroughReport returned, as an Option
    bpanic   \* run_benchmark: the panic message, "" when there is none

vars == <<clock, st, lt, hist, timers, call, out, live, deleted,
          bpc, iters, i, btimer, res, events, report, bpanic>>

simpleVars == <<st>>
libVars == <<lt>>
registryVars == <<timers, call, out, live, deleted>>
benchVars == <<bpc, iters, i, btimer, res, events, report, bpanic>>

\* ----------------------------------------------------------------- options
None == << >>
Some(x) == << x >>
IsSome(o) == Len(o) = 1
IsNone(o) == Len(o) = 0
unwrap(o) == o[1]
UnwrapNone == "called Option::unwrap() on a None value"

\* Values Instant::now() can return after `clock` was returned.
Now == clock .. MaxClock

\* --------------------------------------------------------------- durations
NanosPerSec == 1000 * 1000 * 1000
NanosPerMilli == 1000 * 1000
NanosPerMicro == 1000

\* Instant::duration_since: a Duration {secs, nanos}; it saturates to zero
\* when `earlier` is later than `self` (toolchains before 1.60 panic there).
duration_since(self, earlier) ==
    LET d == IF self >= earlier THEN self - earlier ELSE 0
    IN  [secs |-> d \div NanosPerSec, nanos |-> d % NanosPerSec]

as_nanos(d) == d.secs * NanosPerSec + d.nanos
\* Duration::subsec_micros in place of as_micros: the whole seconds are lost.
as_micros_subsec(d) == d.nanos \div NanosPerMicro

as_micros(d) == d.secs * (NanosPerSec \div NanosPerMicro) + d.nanos \div NanosPerMicro
as_millis(d) == d.secs * (NanosPerSec \div NanosPerMilli) + d.nanos \div NanosPerMilli
as_secs(d) == d.secs

\* ------------------------------------------------- simple.rs: SimpleTimer
AlreadyStarted == "Timer was already started"
AlreadyStopped == "Timer was already stopped"

Simple_new == [start |-> None, stop |-> None]

\* Each method yields the timer after the call and what the call returned;
\* a failed assertion leaves the timer as it was.
\* A reset that clears the stop mark only.
Simple_reset_keeps_start(self) ==
    [self |-> [self EXCEPT !.stop = None], ret |-> "ok"]

Simple_reset(self) ==
    [self |-> [start |-> None, stop |-> None], ret |-> "ok"]

\* A start without the assertion: it overwrites the mark, as lib.rs does.
Simple_start_overwrites(self, call_time) ==
    [self |-> [self EXCEPT !.start = Some(call_time)], ret |-> "ok"]

Simple_start(self, call_time) ==
    IF IsNone(self.start)
    THEN [self |-> [self EXCEPT !.start = Some(call_time)], ret |-> "ok"]
    ELSE [self |-> self, ret |-> AlreadyStarted]

\* A start_checked that forgets its test: it always sets the mark.
Simple_start_checked_overwrites(self, call_time) ==
    [self |-> [self EXCEPT !.start = Some(call_time)], ret |-> "true"]

Simple_start_checked(self, call_time) ==
    LET not_started == IsNone(self.start)
    IN  IF not_started
        THEN [self |-> [self EXCEPT !.start = Some(call_time)], ret |-> "true"]
        ELSE [self |-> self, ret |-> "false"]

\* A stop that assigns before it asserts: the failing call moves the mark.
Simple_stop_assigns_first(self, call_time) ==
    [self |-> [self EXCEPT !.stop = Some(call_time)],
     ret  |-> IF IsNone(self.stop) THEN "ok" ELSE AlreadyStopped]

\* A stop without the assertion: it overwrites the mark, as lib.rs does.
Simple_stop_overwrites(self, call_time) ==
    [self |-> [self EXCEPT !.stop = Some(call_time)], ret |-> "ok"]

Simple_stop(self, call_time) ==
    IF IsNone(self.stop)
    THEN [self |-> [self EXCEPT !.stop = Some(call_time)], ret |-> "ok"]
    ELSE [self |-> self, ret |-> AlreadyStopped]

Simple_stop_checked(self, call_time) ==
    LET not_stopped == IsNone(self.stop)
    IN  IF not_stopped
        THEN [self |-> [self EXCEPT !.stop = Some(call_time)], ret |-> "true"]
        ELSE [self |-> self, ret |-> "false"]

\* ---------------------------------------------- traits.rs: elapsed queries
Ext_time_in_nanos(self) ==
    IF IsSome(self.start) /\ IsSome(self.stop)
    THEN Some(as_nanos(duration_since(unwrap(self.stop), unwrap(self.start))))
    ELSE None

Ext_time_in_micros(self) ==
    IF IsSome(self.start) /\ IsSome(self.stop)
    THEN Some(as_micros(duration_since(unwrap(self.stop), unwrap(self.start))))
    ELSE None

Ext_time_in_millis(self) ==
    IF IsSome(self.start) /\ IsSome(self.stop)
    THEN Some(as_millis(duration_since(unwrap(self.stop), unwrap(self.start))))
    ELSE None

Ext_time_in_secs(self) ==
    IF IsSome(self.start) /\ IsSome(self.stop)
    THEN Some(as_secs(duration_since(unwrap(self.stop), unwrap(self.start))))
    ELSE None

\* ---------------------------------------------------- lib.rs: SimpleTimer
Lib_new == [start |-> None, stop |-> None]

\* A start that keeps a start mark already present, as start_checked of
\* simple.rs does.
Lib_start_keeps_mark(self, t) ==
    IF IsNone(self.start) THEN [self EXCEPT !.start = Some(t)] ELSE self

Lib_start(self, t) == [self EXCEPT !.start = Some(t)]

\* A stop that keeps a stop mark already present, as stop_checked of
\* simple.rs does.
Lib_stop_keeps_mark(self, t) ==
    IF IsNone(self.stop) THEN [self EXCEPT !.stop = Some(t)] ELSE self

Lib_stop(self, t) == [self EXCEPT !.stop = Some(t)]

\* start_after sleeps, then reads the clock: t is the value read after it.
Lib_start_after(self, t) == [self EXCEPT !.start = Some(t)]

find_diff(self) ==
    IF IsSome(self.start)
    THEN IF IsSome(self.stop)
         THEN Some(duration_since(unwrap(self.stop), unwrap(self.start)))
         ELSE None
    ELSE None

Lib_time_in_nanos(self) ==
    IF IsSome(find_diff(self)) THEN Some(as_nanos(unwrap(find_diff(self)))) ELSE None

Lib_time_in_micros(self) ==
    IF IsSome(find_diff(self)) THEN Some(as_micros(unwrap(find_diff(self)))) ELSE None

Lib_time_in_millis(self) ==
    IF IsSome(find_diff(self)) THEN Some(as_millis(unwrap(find_diff(self)))) ELSE None

Lib_time_in_secs(self) ==
    IF IsSome(find_diff(self)) THEN Some(as_secs(unwrap(find_diff(self)))) ELSE None

\* ------------------------------------------------------------ call history
Record(h, op, ret, at) ==
    LET s == Append(h, [op |-> op, ret |-> ret, at |-> at])
    IN  IF Len(s) > HistLen THEN Tail(s) ELSE s


\* --------------------------------------------------- lib.rs: ComplexTimer
DuplicateTag == "This timer already exists"
UnknownTag == "This timer does not exist"

Complex_new == [t \in {} |-> Lib_new]

contains_key(ts, timer_name) == timer_name \in DOMAIN ts

insert(ts, timer_name, v) ==
    [t \in DOMAIN ts \cup {timer_name} |-> IF t = timer_name THEN v ELSE ts[t]]

remove_entry(ts, timer_name) ==
    [t \in DOMAIN ts \ {timer_name} |-> ts[t]]

\* A create without the contains_key test: HashMap::insert replaces the entry.
create_timer_overwrites(ts, timer_name) ==
    [timers |-> insert(ts, timer_name, [start |-> None, stop |-> None]),
     ret |-> "ok"]

\* Each method yields the map after the call and the Result it returned.
create_timer(ts, timer_name) ==
    IF contains_key(ts, timer_name)
    THEN [timers |-> ts, ret |-> DuplicateTag]
    ELSE [timers |-> insert(ts, timer_name, [start |-> None, stop |-> None]),
          ret |-> "ok"]

\* A start that walks the whole map instead of looking the tag up.
start_timer_starts_all(ts, timer_name, t) ==
    IF ~contains_key(ts, timer_name)
    THEN [timers |-> ts, ret |-> UnknownTag]
    ELSE [timers |-> [k \in DOMAIN ts |-> [ts[k] EXCEPT !.start = Some(t)]],
          ret |-> "ok"]

start_timer(ts, timer_name, t) ==
    IF ~contains_key(ts, timer_name)
    THEN [timers |-> ts, ret |-> UnknownTag]
    ELSE [timers |-> [ts EXCEPT ![timer_name].start = Some(t)], ret |-> "ok"]

stop_timer(ts, timer_name, t) ==
    IF ~contains_key(ts, timer_name)
    THEN [timers |-> ts, ret |-> UnknownTag]
    ELSE [timers |-> [ts EXCEPT ![timer_name].stop = Some(t)], ret |-> "ok"]

\* A delete that reports Ok and leaves the entry in the map.
delete_timer_keeps_entry(ts, timer_name) ==
    IF contains_key(ts, timer_name)
    THEN [timers |-> ts, ret |-> "ok"]
    ELSE [timers |-> ts, ret |-> UnknownTag]

delete_timer(ts, timer_name) ==
    IF contains_key(ts, timer_name)
    THEN [timers |-> remove_entry(ts, timer_name), ret |-> "ok"]
    ELSE [timers |-> ts, ret |-> UnknownTag]

\* A clear that removes nothing.
clear_timers_keeps_entries(ts) == [timers |-> ts, ret |-> "ok"]

clear_timers(ts) == [timers |-> Complex_new, ret |-> "ok"]

\* A nanosecond query that converts with as_micros.
Complex_time_in_nanos_as_micros(ts, timer_name) ==
    IF contains_key(ts, timer_name)
    THEN IF IsSome(find_diff(ts[timer_name]))
         THEN Some(as_micros(unwrap(find_diff(ts[timer_name]))))
         ELSE None
    ELSE None

Complex_time_in_nanos(ts, timer_name) ==
    IF contains_key(ts, timer_name)
    THEN IF IsSome(find_diff(ts[timer_name]))
         THEN Some(as_nanos(unwrap(find_diff(ts[timer_name]))))
         ELSE None
    ELSE None

Complex_time_in_micros(ts, timer_name) ==
    IF contains_key(ts, timer_name)
    THEN IF IsSome(find_diff(ts[timer_name]))
         THEN Some(as_micros(unwrap(find_diff(ts[timer_name]))))
         ELSE None
    ELSE None

Complex_time_in_millis(ts, timer_name) ==
    IF contains_key(ts, timer_name)
    THEN IF IsSome(find_diff(ts[timer_name]))
         THEN Some(as_millis(unwrap(find_diff(ts[timer_name]))))
         ELSE None
    ELSE None

Complex_time_in_secs(ts, timer_name) ==
    IF contains_key(ts, timer_name)
    THEN IF IsSome(find_diff(ts[timer_name]))
         THEN Some(as_secs(unwrap(find_diff(ts[timer_name]))))
         ELSE None
    ELSE None

\* timers.iter(): every entry once, in an order the map chooses.  Each
\* element of the set is one order the iterator can yield the tags in.
iter(ts) ==
    {order \in [1 .. Cardinality(DOMAIN ts) -> DOMAIN ts] :
        \A j, k \in 1 .. Cardinality(DOMAIN ts) : order[j] = order[k] => j = k}

\* The loop of print_results over the entries in `order`: a line <<tag,
\* nanos>> per entry, until the unwrap of an incomplete entry panics.
RECURSIVE print_lines(_, _)
print_lines(ts, order) ==
    IF Len(order) = 0
    THEN [out |-> << >>, ret |-> "ok"]
    ELSE IF IsNone(Lib_time_in_nanos(ts[Head(order)]))
         THEN [out |-> << >>, ret |-> UnwrapNone]
         ELSE [out |-> << <<Head(order), unwrap(Lib_time_in_nanos(ts[Head(order)]))>> >>
                          \o print_lines(ts, Tail(order)).out,
               ret |-> print_lines(ts, Tail(order)).ret]

\* print_results: an empty line, then the loop.
print_results(ts, order) ==
    [out |-> << << >> >> \o print_lines(ts, order).out,
     ret |-> print_lines(ts, order).ret]

\* --------------------------------------------------- lib.rs: run_benchmark
SubOverflow == "attempt to subtract with overflow"
IndexOutOfBounds == "index out of bounds"

RECURSIVE insert_sorted(_, _)
insert_sorted(x, s) ==
    IF s = << >> THEN << x >>
    ELSE IF x <= Head(s) THEN << x >> \o s
    ELSE << Head(s) >> \o insert_sorted(x, Tail(s))

\* res.sort(): ascending.
RECURSIVE sort(_)
sort(s) == IF s = << >> THEN << >> ELSE insert_sorted(Head(s), sort(Tail(s)))

\* res.into_iter().sum()
RECURSIVE sum(_)
sum(s) == IF s = << >> THEN 0 ELSE Head(s) + sum(Tail(s))

\* A reduction whose average divides by one less than the sample count.
reduce_divides_by_len_minus_1(samples, n) ==
    LET sorted == sort(samples)
        realindex == Len(sorted) - 1
    IN  [fastest |-> sorted[1],
         slowest |-> sorted[realindex + 1],
         avg |-> sum(sorted) \div (IF realindex > 0 THEN realindex ELSE 1)]

\* The reduction of a non-empty sample vector (lib.rs 104-114).
reduce(samples, n) ==
    LET sorted == sort(samples)
        realindex == Len(sorted) - 1
    IN  [fastest |-> sorted[1],
         slowest |-> sorted[realindex + 1],
         avg |-> sum(sorted) \div n]

\* What the code after the loop can do.  With no sample, `res.len() - 1`
\* overflows: a build with overflow checks panics there, a build without
\* them wraps and panics at `res[0]`.
after_loop(samples, n) ==
    IF Len(samples) = 0
    THEN {[report |-> None, panic |-> m] : m \in {SubOverflow, IndexOutOfBounds}}
    ELSE {[report |-> Some(reduce(samples, n)), panic |-> ""]}

\* The one-based number the progress line prints, handed to `function`.
call_index_one_based(k) == k + 1

\* The index handed to `function` in iteration k.
call_index(k) == k

\* ------------------------------------------------------------------- Init
Init ==
    /\ clock = 0
    /\ st = Simple_new
    /\ lt = Lib_new
    /\ hist = << >>
    /\ timers = Complex_new
    /\ call = [op |-> "new", tag |-> "", ret |-> "ok", val |-> None]
    /\ out = << >>
    /\ live = {}
    /\ deleted = {}
    /\ bpc = "idle"
    /\ iters = 0
    /\ i = 0
    /\ btimer = Lib_new
    /\ res = << >>
    /\ events = << >>
    /\ report = None
    /\ bpanic = ""

\* ------------------------------------------- actions: simple.rs SimpleTimer
SimpleReset ==
    /\ st' = Simple_reset(st).self
    /\ hist' = Record(hist, "reset", Simple_reset(st).ret, clock)
    /\ UNCHANGED <<clock, libVars, registryVars, benchVars>>

SimpleStart ==
    \E t \in Now :
        /\ clock' = t
        /\ st' = Simple_start(st, t).self
        /\ hist' = Record(hist, "start", Simple_start(st, t).ret, t)
        /\ UNCHANGED <<libVars, registryVars, benchVars>>

SimpleStartChecked ==
    \E t \in Now :
        /\ clock' = t
        /\ st' = Simple_start_checked(st, t).self
        /\ hist' = Record(hist, "start_checked", Simple_start_checked(st, t).ret, t)
        /\ UNCHANGED <<libVars, registryVars, benchVars>>

SimpleStop ==
    \E t \in Now :
        /\ clock' = t
        /\ st' = Simple_stop(st, t).self
        /\ hist' = Record(hist, "stop", Simple_stop(st, t).ret, t)
        /\ UNCHANGED <<libVars, registryVars, benchVars>>

SimpleStopChecked ==
    \E t \in Now :
        /\ clock' = t
        /\ st' = Simple_stop_checked(st, t).self
        /\ hist' = Record(hist, "stop_checked", Simple_stop_checked(st, t).ret, t)
        /\ UNCHANGED <<libVars, registryVars, benchVars>>

NextSimple ==
    \/ SimpleReset
    \/ SimpleStart
    \/ SimpleStartChecked
    \/ SimpleStop
    \/ SimpleStopChecked

\* ---------------------------------------------- actions: lib.rs SimpleTimer
LibStart ==
    \E t \in Now :
        /\ clock' = t
        /\ lt' = Lib_start(lt, t)
        /\ hist' = Record(hist, "start", "ok", t)
        /\ UNCHANGED <<simpleVars, registryVars, benchVars>>

LibStop ==
    \E t \in Now :
        /\ clock' = t
        /\ lt' = Lib_stop(lt, t)
        /\ hist' = Record(hist, "stop", "ok", t)
        /\ UNCHANGED <<simpleVars, registryVars, benchVars>>

LibStartAfter ==
    \E t \in Now :
        /\ clock' = t
        /\ lt' = Lib_start_after(lt, t)
        /\ hist' = Record(hist, "start_after", "ok", t)
        /\ UNCHANGED <<simpleVars, registryVars, benchVars>>

NextLib ==
    \/ LibStart
    \/ LibStop
    \/ LibStartAfter

\* --------------------------------------------- actions: lib.rs ComplexTimer
CreateTimer ==
    \E tag \in Tags :
        /\ timers' = create_timer(timers, tag).timers
        /\ call' = [op |-> "create_timer", tag |-> tag,
                    ret |-> create_timer(timers, tag).ret, val |-> None]
        /\ out' = << >>
        /\ live' = IF create_timer(timers, tag).ret = "ok"
                   THEN live \cup {tag} ELSE live
        /\ deleted' = IF create_timer(timers, tag).ret = "ok"
                      THEN deleted \ {tag} ELSE deleted
        /\ UNCHANGED <<clock, simpleVars, libVars, hist, benchVars>>

StartTimer ==
    \E tag \in Tags, t \in Now :
        /\ clock' = t
        /\ timers' = start_timer(timers, tag, t).timers
        /\ call' = [op |-> "start_timer", tag |-> tag,
                    ret |-> start_timer(timers, tag, t).ret, val |-> None]
        /\ out' = << >>
        /\ UNCHANGED <<live, deleted>>
        /\ UNCHANGED <<simpleVars, libVars, hist, benchVars>>

StopTimer ==
    \E tag \in Tags, t \in Now :
        /\ clock' = t
        /\ timers' = stop_timer(timers, tag, t).timers
        /\ call' = [op |-> "stop_timer", tag |-> tag,
                    ret |-> stop_timer(timers, tag, t).ret, val |-> None]
        /\ out' = << >>
        /\ UNCHANGED <<live, deleted>>
        /\ UNCHANGED <<simpleVars, libVars, hist, benchVars>>

DeleteTimer ==
    \E tag \in Tags :
        /\ timers' = delete_timer(timers, tag).timers
        /\ call' = [op |-> "delete_timer", tag |-> tag,
                    ret |-> delete_timer(timers, tag).ret, val |-> None]
        /\ out' = << >>
        /\ live' = IF delete_timer(timers, tag).ret = "ok"
                   THEN live \ {tag} ELSE live
        /\ deleted' = IF delete_timer(timers, tag).ret = "ok"
                      THEN deleted \cup {tag} ELSE deleted
        /\ UNCHANGED <<clock, simpleVars, libVars, hist, benchVars>>

ClearTimers ==
    /\ timers' = clear_timers(timers).timers
    /\ call' = [op |-> "clear_timers", tag |-> "",
                ret |-> clear_timers(timers).ret, val |-> None]
    /\ out' = << >>
    /\ live' = {}
    /\ UNCHANGED deleted
    /\ UNCHANGED <<clock, simpleVars, libVars, hist, benchVars>>

\* The four elapsed queries take &self: they return an Option (val) and
\* change nothing.
TimeInNanos ==
    \E tag \in Tags :
        /\ call' = [op |-> "time_in_nanos", tag |-> tag,
                    ret |-> "ok", val |-> Complex_time_in_nanos(timers, tag)]
        /\ out' = << >>
        /\ UNCHANGED <<clock, simpleVars, libVars, hist, benchVars,
                       timers, live, deleted>>

TimeInMicros ==
    \E tag \in Tags :
        /\ call' = [op |-> "time_in_micros", tag |-> tag,
                    ret |-> "ok", val |-> Complex_time_in_micros(timers, tag)]
        /\ out' = << >>
        /\ UNCHANGED <<clock, simpleVars, libVars, hist, benchVars,
                       timers, live, deleted>>

TimeInMillis ==
    \E tag \in Tags :
        /\ call' = [op |-> "time_in_millis", tag |-> tag,
                    ret |-> "ok", val |-> Complex_time_in_millis(timers, tag)]
        /\ out' = << >>
        /\ UNCHANGED <<clock, simpleVars, libVars, hist, benchVars,
                       timers, live, deleted>>

TimeInSecs ==
    \E tag \in Tags :
        /\ call' = [op |-> "time_in_secs", tag |-> tag,
                    ret |-> "ok", val |-> Complex_time_in_secs(timers, tag)]
        /\ out' = << >>
        /\ UNCHANGED <<clock, simpleVars, libVars, hist, benchVars,
                       timers, live, deleted>>

\* print_results takes &self; the order is the one timers.iter() yields.
PrintResults ==
    \E order \in iter(timers) :
        /\ call' = [op |-> "print_results", tag |-> "",
                    ret |-> print_results(timers, order).ret, val |-> None]
        /\ out' = print_results(timers, order).out
        /\ UNCHANGED <<clock, simpleVars, libVars, hist, benchVars,
                       timers, live, deleted>>

NextRegistry ==
    \/ CreateTimer
    \/ StartTimer
    \/ StopTimer
    \/ DeleteTimer
    \/ ClearTimers
    \/ TimeInNanos
    \/ TimeInMicros
    \/ TimeInMillis
    \/ TimeInSecs
    \/ PrintResults

\* ---------------------------------------------- actions: lib.rs run_benchmark
\* The call: run_benchmark(n, function); lines 95-96.
BenchBegin ==
    \E n \in 0 .. MaxIters :
        /\ bpc = "idle"
        /\ iters' = n
        /\ btimer' = Lib_new
        /\ res' = << >>
        /\ i' = 0
        /\ bpc' = "loop"
        /\ UNCHANGED <<clock, simpleVars, libVars, hist, registryVars,
                       events, report, bpanic>>

\* timer.start(); line 99.
BenchIterStart ==
    \E t \in Now :
        /\ bpc = "loop"
        /\ i < iters
        /\ clock' = t
        /\ btimer' = Lib_start(btimer, t)
        /\ events' = Append(events, [kind |-> "start", v |-> t])
        /\ bpc' = "call"
        /\ UNCHANGED <<simpleVars, libVars, hist, registryVars,
                       iters, i, res, report, bpanic>>

\* (function)(i); line 100.
BenchCall ==
    /\ bpc = "call"
    /\ events' = Append(events, [kind |-> "call", v |-> call_index(i)])
    /\ bpc' = "stop"
    /\ UNCHANGED <<clock, simpleVars, libVars, hist, registryVars,
                   iters, i, btimer, res, report, bpanic>>

\* timer.stop(); res.push(timer.time_in_nanos().unwrap()); lines 101-102.
BenchIterStop ==
    \E t \in Now :
        /\ bpc = "stop"
        /\ clock' = t
        /\ btimer' = Lib_stop(btimer, t)
        /\ events' = Append(events, [kind |-> "stop", v |-> t])
        /\ IF IsSome(Lib_time_in_nanos(Lib_stop(btimer, t)))
           THEN /\ res' = Append(res, unwrap(Lib_time_in_nanos(Lib_stop(btimer, t))))
                /\ i' = i + 1
                /\ bpc' = "loop"
                /\ bpanic' = bpanic
           ELSE /\ bpc' = "panic"
                /\ bpanic' = UnwrapNone
                /\ UNCHANGED <<res, i>>
        /\ UNCHANGED <<simpleVars, libVars, hist, registryVars, iters, report>>

\* Lines 104-114, once the loop has ended.
BenchFinish ==
    \E o \in after_loop(res, iters) :
        /\ bpc = "loop"
        /\ ~(i < iters)
        /\ report' = o.report
        /\ bpanic' = o.panic
        /\ bpc' = IF o.panic = "" THEN "done" ELSE "panic"
        /\ UNCHANGED <<clock, simpleVars, libVars, hist, registryVars,
                       iters, i, btimer, res, events>>

NextBench ==
    \/ BenchBegin
    \/ BenchIterStart
    \/ BenchCall
    \/ BenchIterStop
    \/ BenchFinish

\* ------------------------------------- actions: measurements of any length
\* The same start() and stop() calls as above, with the clock read on a
\* coarse scale of nanoseconds, so that the elapsed values reach from below
\* a microsecond to more than a second.
Instants ==
    {0, 1, 1000, 1001, 1000000, 50000000, 50000001, 1000000000, 2000000001}

Later == {t \in Instants : t >= clock}

MeasureSimpleStart ==
    \E t \in Later :
        /\ clock' = t
        /\ st' = Simple_start(st, t).self
        /\ UNCHANGED <<libVars, hist, registryVars, benchVars>>

MeasureSimpleStop ==
    \E t \in Later :
        /\ clock' = t
        /\ st' = Simple_stop(st, t).self
        /\ UNCHANGED <<libVars, hist, registryVars, benchVars>>

MeasureLibStart ==
    \E t \in Later :
        /\ clock' = t
        /\ lt' = Lib_start(lt, t)
        /\ UNCHANGED <<simpleVars, hist, registryVars, benchVars>>

MeasureLibStop ==
    \E t \in Later :
        /\ clock' = t
        /\ lt' = Lib_stop(lt, t)
        /\ UNCHANGED <<simpleVars, hist, registryVars, benchVars>>

NextMeasure ==
    \/ MeasureSimpleStart
    \/ MeasureSimpleStop
    \/ MeasureLibStart
    \/ MeasureLibStop

\* --------------------------------------------------------- specifications
SpecMeasure == Init /\ [][NextMeasure]_vars
SpecSimple == Init /\ [][NextSimple]_vars
SpecLib == Init /\ [][NextLib]_vars
SpecRegistry == Init /\ [][NextRegistry]_vars
SpecBench == Init /\ [][NextBench]_vars

\* The whole library: the components share nothing but the clock, and each
\* is checked under its own specification above.
Next ==
    \/ NextSimple
    \/ NextLib
    \/ NextRegistry
    \/ NextBench

Spec == Init /\ [][Next]_vars


\* ------------------------------------------------------------ vocabulary
Last(h) == h[Len(h)]
BothMarks(timer) == IsSome(timer.start) /\ IsSome(timer.stop)
Elapsed(timer) == unwrap(timer.stop) - unwrap(timer.start)

\* Every timer of the model: the standalone ones, the registry's entries and
\* the one run_benchmark drives.
AllTimers == {st, lt, btimer} \cup {timers[tag] : tag \in DOMAIN timers}

\* ------------------------------------------------- claims: simple.rs timer

\* C1: start() succeeds exactly when no start mark is present (the state the
\* claims call Empty: no start mark since creation or the last reset), and
\* then records the call time as the start mark; with a start mark present
\* it fails with AlreadyStarted and leaves both marks as they were.
C1_StartFailsWhenStarted ==
    [][ (Len(hist') > 0 /\ Last(hist').op = "start") =>
          /\ (Last(hist').ret = "ok") <=> IsNone(st.start)
          /\ IsSome(st.start) =>
                /\ Last(hist').ret = AlreadyStarted
                /\ st' = st
          /\ IsNone(st.start) =>
                /\ st'.start = Some(clock')
                /\ st'.stop = st.stop ]_vars

\* C1 witness: start() has just failed on a timer holding both marks.
C1_Witness ==
    /\ Len(hist) > 1
    /\ Last(hist).op = "start"
    /\ Last(hist).ret = AlreadyStarted
    /\ BothMarks(st)

\* C2: a stop mark is present only if a start mark is present: stop() with
\* no start mark fails.
C2_NoStopWithoutStart ==
    IsSome(st.stop) => IsSome(st.start)

\* C3: stop() with a stop mark present fails with AlreadyStopped and leaves
\* both marks as they were.
C3_StopFailsWhenStopped ==
    [][ (Len(hist') > 0 /\ Last(hist').op = "stop" /\ IsSome(st.stop)) =>
          /\ Last(hist').ret = AlreadyStopped
          /\ st' = st ]_vars

\* C3 witness: stop() has just failed on a stopped timer.
C3_Witness ==
    /\ Len(hist) > 1
    /\ Last(hist).op = "stop"
    /\ Last(hist).ret = AlreadyStopped
    /\ IsSome(st.stop)

\* C4: for every timer each elapsed query is None exactly when a mark is
\* absent, and otherwise is the stop mark minus the start mark, in its unit.
C4_ElapsedIsStopMinusStart ==
    /\ IsNone(Ext_time_in_nanos(st)) <=> ~BothMarks(st)
    /\ IsNone(Ext_time_in_micros(st)) <=> ~BothMarks(st)
    /\ IsNone(Ext_time_in_millis(st)) <=> ~BothMarks(st)
    /\ IsNone(Ext_time_in_secs(st)) <=> ~BothMarks(st)
    /\ BothMarks(st) => Ext_time_in_nanos(st) = Some(Elapsed(st))
    /\ \A timer \in AllTimers \ {st} :
          /\ IsNone(Lib_time_in_nanos(timer)) <=> ~BothMarks(timer)
          /\ IsNone(Lib_time_in_micros(timer)) <=> ~BothMarks(timer)
          /\ IsNone(Lib_time_in_millis(timer)) <=> ~BothMarks(timer)
          /\ IsNone(Lib_time_in_secs(timer)) <=> ~BothMarks(timer)
          /\ BothMarks(timer) => Lib_time_in_nanos(timer) = Some(Elapsed(timer))

\* The part of C4 the code keeps: a query is None exactly when a mark is
\* absent.
ElapsedNoneIffMarkAbsent ==
    /\ IsNone(Ext_time_in_nanos(st)) <=> ~BothMarks(st)
    /\ \A timer \in AllTimers \ {st} :
          IsNone(Lib_time_in_nanos(timer)) <=> ~BothMarks(timer)

\* C5: in every timer, when both marks are present the stop mark is not
\* earlier than the start mark.
C5_StopNotBeforeStart ==
    \A timer \in AllTimers :
        BothMarks(timer) => unwrap(timer.stop) >= unwrap(timer.start)

\* C6: reset() returns normally and leaves both marks absent; after
\* reset(), start(), stop() both calls have succeeded, the marks are the two
\* call times and every query is the difference of exactly those two.
C6_ResetThenFreshCycle ==
    /\ (Len(hist) > 0 /\ Last(hist).op = "reset") =>
          /\ Last(hist).ret = "ok"
          /\ st = [start |-> None, stop |-> None]
    /\ \A n \in 3 .. Len(hist) :
          (/\ n = Len(hist)
           /\ hist[n - 2].op = "reset"
           /\ hist[n - 1].op = "start"
           /\ hist[n].op = "stop") =>
              /\ hist[n - 1].ret = "ok"
              /\ hist[n].ret = "ok"
              /\ st = [start |-> Some(hist[n - 1].at), stop |-> Some(hist[n].at)]
              /\ Ext_time_in_nanos(st) = Some(hist[n].at - hist[n - 1].at)
              /\ Ext_time_in_micros(st)
                    = Some((hist[n].at - hist[n - 1].at) \div NanosPerMicro)
              /\ Ext_time_in_millis(st)
                    = Some((hist[n].at - hist[n - 1].at) \div NanosPerMilli)
              /\ Ext_time_in_secs(st)
                    = Some((hist[n].at - hist[n - 1].at) \div NanosPerSec)

\* C6 witness: a timer stopped in an earlier cycle was reset, started and
\* stopped again, at later times.
C6_Witness ==
    /\ Len(hist) = 4
    /\ hist[1].op = "stop" /\ hist[1].ret = "ok"
    /\ hist[2].op = "reset"
    /\ hist[3].op = "start"
    /\ hist[4].op = "stop"
    /\ hist[1].at < hist[3].at
    /\ hist[3].at < hist[4].at


\* ------------------------------------------------- claims: run_benchmark
Range(s) == {s[k] : k \in 1 .. Len(s)}
MinOf(S) == CHOOSE x \in S : \A y \in S : x <= y
MaxOf(S) == CHOOSE x \in S : \A y \in S : x >= y

\* The sum of the first k samples, counted from the front.
RECURSIVE SumFirst(_, _)
SumFirst(s, k) == IF k = 0 THEN 0 ELSE SumFirst(s, k - 1) + s[k]

\* C7: the log of a run is start mark, invocation, stop mark, repeated: the
\* k-th invocation gets index k-1, no mark is earlier than the one before
\* it, the timer holds the marks logged last, one sample is pushed per
\* completed iteration, and a run that returns has made exactly `iters`
\* invocations.
C7_IterationsInOrder ==
    /\ \A k \in 1 .. Len(events) :
          /\ k % 3 = 1 => events[k].kind = "start"
          /\ k % 3 = 2 => events[k].kind = "call" /\ events[k].v = (k - 2) \div 3
          /\ k % 3 = 0 => events[k].kind = "stop" /\ events[k - 2].v <= events[k].v
          /\ (k % 3 = 1 /\ k > 1) => events[k - 1].v <= events[k].v
    /\ Len(res) = Len(events) \div 3
    /\ Len(events) > 0 =>
          btimer.start = Some(events[3 * ((Len(events) - 1) \div 3) + 1].v)
    /\ (Len(events) > 0 /\ Len(events) % 3 = 0) =>
          btimer.stop = Some(events[Len(events)].v)
    /\ bpc = "done" =>
          /\ iters >= 1
          /\ Len(events) = 3 * iters
          /\ Len(res) = iters

\* C7 witness: a run of several iterations has returned.
C7_Witness ==
    /\ bpc = "done"
    /\ iters >= 2
    /\ Len(events) = 3 * iters

\* C8: the report of a run of N >= 1 iterations has the least sample as
\* fastest, the greatest as slowest, floor(sum / N) as average, and
\* fastest <= average <= slowest; the samples 100, 200, 150, 400, 100 reduce
\* to fastest 100, slowest 400, average 190.
C8_ReportIsMinMaxMean ==
    /\ bpc = "done" =>
        /\ IsSome(report)
        /\ Len(res) = iters
        /\ unwrap(report).fastest = MinOf(Range(res))
        /\ unwrap(report).slowest = MaxOf(Range(res))
        /\ unwrap(report).avg = SumFirst(res, Len(res)) \div iters
        /\ unwrap(report).fastest <= unwrap(report).avg
        /\ unwrap(report).avg <= unwrap(report).slowest
    /\ reduce(<<100, 200, 150, 400, 100>>, 5)
          = [fastest |-> 100, slowest |-> 400, avg |-> 190]

\* C8 witness: a report over three samples that arrived out of order and
\* whose sum is no multiple of three.
C8_Witness ==
    /\ bpc = "done"
    /\ iters = 3
    /\ res[1] > res[2]
    /\ SumFirst(res, 3) % 3 # 0
    /\ unwrap(report).fastest < unwrap(report).slowest

\* C9: run_benchmark(0, op) ends with the typed InvalidIterationCount
\* failure, not with an arithmetic or index panic, and never invokes op.
C9_ZeroIterationsTypedFailure ==
    (iters = 0 /\ bpc \in {"done", "panic"}) =>
        /\ bpanic = "InvalidIterationCount"
        /\ bpanic \notin {SubOverflow, IndexOutOfBounds}
        /\ events = << >>

\* The part of C9 the code keeps: with iters = 0, op is never invoked.
ZeroIterationsNeverInvoke ==
    (iters = 0 /\ bpc # "idle") => events = << >>

\* ------------------------------------------------------ claims: registry

\* C10: create_timer(tag) on an absent tag adds an entry with both marks
\* absent, changes no other entry and returns Ok; on a present tag it
\* returns the DuplicateTag error and leaves the registry as it was.
C10_CreateTimer ==
    [][ call'.op = "create_timer" =>
          IF call'.tag \in DOMAIN timers
          THEN /\ call'.ret = DuplicateTag
               /\ timers' = timers
          ELSE /\ call'.ret = "ok"
               /\ DOMAIN timers' = DOMAIN timers \cup {call'.tag}
               /\ timers'[call'.tag] = [start |-> None, stop |-> None]
               /\ \A other \in DOMAIN timers : timers'[other] = timers[other]
      ]_vars

\* C10 witness: create_timer has just failed on a tag whose timer holds
\* both marks.
C10_Witness ==
    /\ call.op = "create_timer"
    /\ call.ret = DuplicateTag
    /\ call.tag \in DOMAIN timers
    /\ BothMarks(timers[call.tag])


QueryOps == {"time_in_nanos", "time_in_micros", "time_in_millis", "time_in_secs"}

\* C11: start_timer / stop_timer return the UnknownTag error on an absent
\* tag; on an entry that already holds the mark they fail with
\* AlreadyStarted / AlreadyStopped and leave the mark as it was.
C11_RegistryStartStopFailures ==
    [][ /\ (call'.op \in {"start_timer", "stop_timer"}
              /\ call'.tag \notin DOMAIN timers) =>
              /\ call'.ret = UnknownTag
              /\ timers' = timers
        /\ (call'.op = "start_timer" /\ call'.tag \in DOMAIN timers) =>
              (IsSome(timers[call'.tag].start) =>
                  /\ call'.ret = AlreadyStarted
                  /\ timers' = timers)
        /\ (call'.op = "stop_timer" /\ call'.tag \in DOMAIN timers) =>
              (IsSome(timers[call'.tag].stop) =>
                  /\ call'.ret = AlreadyStopped
                  /\ timers' = timers)
      ]_vars

\* The part of C11 the code keeps: on an absent tag start_timer and
\* stop_timer return the UnknownTag error and change nothing.
StartStopUnknownTag ==
    [][ (call'.op \in {"start_timer", "stop_timer"}
           /\ call'.tag \notin DOMAIN timers) =>
           /\ call'.ret = UnknownTag
           /\ timers' = timers ]_vars

\* What a step of the registry does to a deleted tag, with `queryRet` the
\* way an elapsed query on it ends: "ok" when it returns normally.
DeleteStep(queryRet) ==
    /\ call'.op = "delete_timer" =>
          IF call'.tag \in DOMAIN timers
          THEN /\ call'.ret = "ok"
               /\ DOMAIN timers' = DOMAIN timers \ {call'.tag}
               /\ \A other \in DOMAIN timers' : timers'[other] = timers[other]
          ELSE /\ call'.ret = UnknownTag
               /\ timers' = timers
    /\ (call'.op \in {"start_timer", "stop_timer", "delete_timer"}
          /\ call'.tag \in deleted) =>
          call'.ret = UnknownTag
    /\ (call'.op \in QueryOps /\ call'.tag \in deleted) =>
          /\ call'.ret = queryRet
          /\ call'.val = None
    /\ deleted' \cap DOMAIN timers' = {}
    /\ \A tag \in deleted \ deleted' :
          call'.op = "create_timer" /\ call'.tag = tag /\ call'.ret = "ok"

\* C12 as stated: delete_timer removes a present entry and returns Ok, and
\* returns the UnknownTag error on an absent one; from a successful delete
\* until the tag is created again, start_timer, stop_timer, delete_timer and
\* the elapsed queries on it all fail with UnknownTag.
C12_DeletedTagUnknownEverywhere ==
    [][DeleteStep(UnknownTag)]_vars

\* C12 amended: as stated for delete_timer, start_timer and stop_timer; an
\* elapsed query on the deleted tag returns normally, with None.
C12_DeletedTagUnknownOrNone ==
    [][DeleteStep("ok")]_vars

\* C12 witness: an elapsed query has just returned None on a deleted tag
\* while the other tag is still in the registry.
C12_Witness ==
    /\ call.op = "time_in_nanos"
    /\ call.tag \in deleted
    /\ call.ret = "ok"
    /\ IsNone(call.val)
    /\ DOMAIN timers # {}

\* C13: each registry query is None exactly when the tag is absent or its
\* timer lacks a mark, and otherwise is what the timer's own query returns;
\* a query call returns that value.
C13_RegistryQueries ==
    /\ \A tag \in Tags :
          /\ IsNone(Complex_time_in_nanos(timers, tag))
                <=> (tag \notin DOMAIN timers \/ ~BothMarks(timers[tag]))
          /\ IsNone(Complex_time_in_micros(timers, tag))
                <=> (tag \notin DOMAIN timers \/ ~BothMarks(timers[tag]))
          /\ IsNone(Complex_time_in_millis(timers, tag))
                <=> (tag \notin DOMAIN timers \/ ~BothMarks(timers[tag]))
          /\ IsNone(Complex_time_in_secs(timers, tag))
                <=> (tag \notin DOMAIN timers \/ ~BothMarks(timers[tag]))
          /\ tag \in DOMAIN timers =>
                /\ Complex_time_in_nanos(timers, tag) = Lib_time_in_nanos(timers[tag])
                /\ Complex_time_in_micros(timers, tag) = Lib_time_in_micros(timers[tag])
                /\ Complex_time_in_millis(timers, tag) = Lib_time_in_millis(timers[tag])
                /\ Complex_time_in_secs(timers, tag) = Lib_time_in_secs(timers[tag])
    /\ (call.op = "time_in_nanos" /\ call.tag \in DOMAIN timers) =>
          call.val = Lib_time_in_nanos(timers[call.tag])
    /\ (call.op = "time_in_micros" /\ call.tag \in DOMAIN timers) =>
          call.val = Lib_time_in_micros(timers[call.tag])
    /\ (call.op = "time_in_millis" /\ call.tag \in DOMAIN timers) =>
          call.val = Lib_time_in_millis(timers[call.tag])
    /\ (call.op = "time_in_secs" /\ call.tag \in DOMAIN timers) =>
          call.val = Lib_time_in_secs(timers[call.tag])
    /\ (call.op \in QueryOps /\ call.tag \notin DOMAIN timers) =>
          call.val = None

\* C13 witness: time_in_nanos has just returned a positive value for a
\* created, started and stopped tag.
C13_Witness ==
    /\ call.op = "time_in_nanos"
    /\ IsSome(call.val)
    /\ unwrap(call.val) > 0
    /\ BothMarks(timers[call.tag])

\* C14: every order iter() can yield holds exactly the tags created and not
\* deleted or cleared since, each once; after clear_timers it yields none.
C14_IterYieldsLiveTags ==
    /\ \A order \in iter(timers) :
          /\ Range(order) = live
          /\ Len(order) = Cardinality(live)
    /\ call.op = "clear_timers" =>
          /\ live = {}
          /\ iter(timers) = {<< >>}

\* C14 witness: of two tags created, one has just been deleted and iter()
\* yields the other.
C14_Witness ==
    /\ call.op = "delete_timer"
    /\ call.ret = "ok"
    /\ Cardinality(live) = 1
    /\ \E order \in iter(timers) : Len(order) = 1 /\ order[1] \in live

\* C15: start_checked returns true and records the start mark exactly when
\* no start mark was present, and otherwise returns false and leaves both
\* marks as they were; stop_checked does the same for the stop mark; neither
\* ends in a failure.
C15_CheckedVariants ==
    [][ LET c == Last(hist') IN
        /\ c.op = "start_checked" =>
              /\ c.ret \in {"true", "false"}
              /\ (c.ret = "true") <=> IsNone(st.start)
              /\ c.ret = "true" => st' = [st EXCEPT !.start = Some(c.at)]
              /\ c.ret = "false" => st' = st
        /\ c.op = "stop_checked" =>
              /\ c.ret \in {"true", "false"}
              /\ (c.ret = "true") <=> IsNone(st.stop)
              /\ c.ret = "true" => st' = [st EXCEPT !.stop = Some(c.at)]
              /\ c.ret = "false" => st' = st
      ]_vars

\* C15 witness: start_checked returned true, and a later start_checked has
\* just returned false with the first call's mark still in place.
C15_Witness ==
    /\ Len(hist) >= 2
    /\ hist[Len(hist) - 1].op = "start_checked"
    /\ hist[Len(hist) - 1].ret = "true"
    /\ Last(hist).op = "start_checked"
    /\ Last(hist).ret = "false"
    /\ Last(hist).at > hist[Len(hist) - 1].at
    /\ st.start = Some(hist[Len(hist) - 1].at)

Failures == {AlreadyStarted, AlreadyStopped}

\* C20: a start() or stop() of simple.rs that fails leaves both marks, and so
\* the elapsed value, as they were; a reset() after the failed call empties
\* the timer, and the start() after that reset succeeds.
C20_FailedCallLeavesMarks ==
    [][ LET c == Last(hist') IN
        /\ (c.op \in {"start", "stop"} /\ c.ret \in Failures) =>
              /\ st' = st
              /\ Ext_time_in_nanos(st') = Ext_time_in_nanos(st)
        /\ (hist # << >> /\ Last(hist).ret \in Failures /\ c.op = "reset") =>
              st' = Simple_new
        /\ (Len(hist) >= 2
              /\ hist[Len(hist) - 1].ret \in Failures
              /\ Last(hist).op = "reset"
              /\ c.op = "start") =>
              /\ c.ret = "ok"
              /\ st' = [Simple_new EXCEPT !.start = Some(c.at)]
      ]_vars

\* C20 witness: stop() failed on a completed measurement, which is still
\* readable; then reset() and a start() that has just succeeded.
C20_Witness ==
    /\ Len(hist) = HistLen
    /\ hist[1].op = "stop" /\ hist[1].ret = "ok"
    /\ hist[2].op = "stop" /\ hist[2].ret = AlreadyStopped
    /\ hist[2].at > hist[1].at
    /\ hist[3].op = "reset"
    /\ hist[4].op = "start" /\ hist[4].ret = "ok"
    /\ st.start = Some(hist[4].at)
    /\ IsNone(st.stop)

\* The last four calls on the lib.rs timer are a completed measurement
\* followed by start() and stop().
MeasuredTwice ==
    /\ Len(hist) >= 4
    /\ hist[Len(hist) - 3].op \in {"start", "start_after"}
    /\ hist[Len(hist) - 2].op = "stop"
    /\ hist[Len(hist) - 1].op = "start"
    /\ hist[Len(hist)].op = "stop"

\* C16: the lib.rs timer is reusable without a reset: after start (or
\* start_after) and stop, a further start() and stop() both succeed, the
\* marks are those of the second pair, and every elapsed query reports the
\* second pair's difference.
C16_ReuseWithoutReset ==
    MeasuredTwice =>
        LET second_start == hist[Len(hist) - 1].at
            second_stop == hist[Len(hist)].at
        IN  /\ hist[Len(hist) - 1].ret = "ok"
            /\ hist[Len(hist)].ret = "ok"
            /\ lt = [start |-> Some(second_start), stop |-> Some(second_stop)]
            /\ Lib_time_in_nanos(lt) = Some(second_stop - second_start)
            /\ Lib_time_in_micros(lt) =
                  Some((second_stop - second_start) \div NanosPerMicro)
            /\ Lib_time_in_millis(lt) =
                  Some((second_stop - second_start) \div NanosPerMilli)
            /\ Lib_time_in_secs(lt) =
                  Some((second_stop - second_start) \div NanosPerSec)

\* C16 witness: a first measurement of 2 begun with start_after, then a
\* second one of 1 that the query reports.
C16_Witness ==
    /\ MeasuredTwice
    /\ hist[Len(hist) - 3].op = "start_after"
    /\ hist[Len(hist) - 2].at - hist[Len(hist) - 3].at = 2
    /\ hist[Len(hist)].at - hist[Len(hist) - 1].at = 1
    /\ Lib_time_in_nanos(lt) = Some(1)

\* The lines of the last report that read "<tag> - <nanos> ns" for the entry
\* `tag`, a complete one.
LinesOf(tag) ==
    {j \in 1 .. Len(out) :
        out[j] = <<tag, unwrap(Lib_time_in_nanos(timers[tag]))>>}

\* C17: print_results emits one line per entry; an incomplete entry is an
\* error for its own line only: the report is not aborted and every complete
\* entry still has its line.
C17_PrintResultsNeverAborts ==
    call.op = "print_results" =>
        /\ call.ret = "ok"
        /\ \A tag \in DOMAIN timers :
              BothMarks(timers[tag]) => Cardinality(LinesOf(tag)) = 1

\* The part of C17 the code keeps: when every entry is complete the report
\* ends normally, with one line per entry after the empty first line.
PrintResultsOfCompleteEntries ==
    (call.op = "print_results"
       /\ \A tag \in DOMAIN timers : BothMarks(timers[tag])) =>
        /\ call.ret = "ok"
        /\ Len(out) = 1 + Cardinality(DOMAIN timers)
        /\ \A tag \in DOMAIN timers : Cardinality(LinesOf(tag)) = 1

TagOps ==
    {"create_timer", "start_timer", "stop_timer", "delete_timer"} \cup QueryOps

\* C19: an operation on one tag leaves the presence and both marks of every
\* other tag as they were; an operation that fails on an unknown or a
\* duplicate tag, and every elapsed query, leaves the whole registry as it
\* was.
C19_EntriesIndependent ==
    [][ /\ call'.op \in TagOps =>
              \A b \in Tags \ {call'.tag} :
                  /\ (b \in DOMAIN timers') <=> (b \in DOMAIN timers)
                  /\ b \in DOMAIN timers => timers'[b] = timers[b]
        /\ call'.ret \in {UnknownTag, DuplicateTag} => timers' = timers
        /\ call'.op \in QueryOps => timers' = timers
      ]_vars

\* C19 witness: with one entry holding a measurement, start_timer has just
\* set the start mark of the other entry, later than both of its marks.
C19_Witness ==
    /\ call.op = "start_timer"
    /\ call.ret = "ok"
    /\ \E b \in DOMAIN timers \ {call.tag} :
          /\ BothMarks(timers[b])
          /\ Elapsed(timers[b]) > 0
          /\ call.tag \in DOMAIN timers
          /\ timers[call.tag].start = Some(clock)
          /\ unwrap(timers[b].stop) < clock

\* C18: for every completed timer with elapsed nanoseconds n, time_in_nanos
\* is n, time_in_micros is n div 1000, time_in_millis is n div 1_000_000 and
\* time_in_secs is n div 1_000_000_000; n = 50_000_000 gives 50 milliseconds
\* and 0 seconds.
C18_UnitConversions ==
    /\ BothMarks(st) =>
          LET n == unwrap(Ext_time_in_nanos(st))
          IN  /\ Elapsed(st) >= 0 => n = Elapsed(st)
              /\ Ext_time_in_micros(st) = Some(n \div 1000)
              /\ Ext_time_in_millis(st) = Some(n \div 1000000)
              /\ Ext_time_in_secs(st) = Some(n \div 1000000000)
              /\ n = 50000000 =>
                    /\ Ext_time_in_millis(st) = Some(50)
                    /\ Ext_time_in_secs(st) = Some(0)
    /\ BothMarks(lt) =>
          LET n == unwrap(Lib_time_in_nanos(lt))
          IN  /\ Elapsed(lt) >= 0 => n = Elapsed(lt)
              /\ Lib_time_in_micros(lt) = Some(n \div 1000)
              /\ Lib_time_in_millis(lt) = Some(n \div 1000000)
              /\ Lib_time_in_secs(lt) = Some(n \div 1000000000)
              /\ n = 50000000 =>
                    /\ Lib_time_in_millis(lt) = Some(50)
                    /\ Lib_time_in_secs(lt) = Some(0)

\* C18 witness: one timer measured 50_000_000 ns from an instant after the
\* origin, the other more than two seconds.
C18_Witness ==
    /\ BothMarks(st)
    /\ unwrap(st.start) = 1
    /\ Elapsed(st) = 50000000
    /\ BothMarks(lt)
    /\ Elapsed(lt) = 2000000001
    /\ Lib_time_in_micros(lt) = Some(2000000)

\* C21: run_benchmark uses one timer for all iterations and never resets it;
\* the elapsed value read after each stop is available (the unwrap never
\* meets None) and is that iteration's own stop mark minus its own start
\* mark; a run that returns holds exactly `iters` samples, the k-th being the
\* duration of the k-th invocation.
C21_SamplesPerIteration ==
    /\ bpanic # UnwrapNone
    /\ Len(res) <= Len(events) \div 3
    /\ \A k \in 1 .. Len(res) :
          /\ events[3 * k - 2].kind = "start"
          /\ events[3 * k - 1] = [kind |-> "call", v |-> k - 1]
          /\ events[3 * k].kind = "stop"
          /\ res[k] = events[3 * k].v - events[3 * k - 2].v
    /\ (bpc = "loop" \/ bpc = "done") => Len(res) = i
    /\ bpc = "done" => Len(res) = iters

\* C21 witness: a run has returned whose second iteration began after the
\* first one's stop and lasted longer than the first.
C21_Witness ==
    /\ bpc = "done"
    /\ iters >= 2
    /\ res[1] > 0
    /\ res[2] > res[1]
    /\ events[4].v >= events[3].v
    /\ btimer.start = Some(events[3 * iters - 2].v)

=============================================================================
